---- MODULE Spec2Model ----
(***************************************************************************)
(* Model of diferencia_mpio_2024_2025.py: the record extractor, the three  *)
(* completeness classifiers, the snapshot differ with its accumulator, and *)
(* the run of main with its two external reference sources.                *)
(* A last part models process_xml of Manta/script/Eliminar_predios_xml.py. *)
(*                                                                         *)
(* Python values are tagged records: None, a str, a number, or a dict      *)
(* (a function from keys to values).  An XML element is a record           *)
(* [tag, text, hijos] as xml.etree.ElementTree exposes it: text is None    *)
(* or a str, hijos the sequence of child elements in document order.       *)
(***************************************************************************)
EXTENDS Integers, Sequences, FiniteSets, TLC

VARIABLES
    pc,                  \* position of the running function
    ruta_archivo,        \* the file handed to the three classifiers
    carpeta_enero,       \* folder of period A: file base name -> file
    carpeta_dic,         \* folder of period B: file base name -> file
    pendientes,          \* archivos_comunes not yet iterated by procesar_carpetas
    comparados,          \* per file pair handed to comparar_predios: what it wrote to the report
    acumulados_comunes,  \* the global set acumulados_comunes
    resultado_sin_interesados,  \* result of consulta 1 on the file under classification
    resultado_sin_avaluos,      \* result of consulta 2
    resultado_cero,             \* result of consulta 3
    cola,                \* the valid files main has still to classify, in order
    esquemas,            \* the schemas ejecutar_consulta_por_esquema has still to query
    fallos,              \* the operations on the two external databases that failed
    reporte,             \* the sets main wrote to the consolidated report, by section
    conjunto_land,       \* main's conjunto_land
    predios_res,         \* main's predios_res
    predios_sin_tram_res, \* main's final report of predios without tramite nor resolucion
    predios_xml,         \* the Snapshot obtener_predios_desde_xml returned for ruta_archivo
    unique_predios,      \* the set load_predios_to_delete read from the TXT
    eliminacion          \* what process_xml of Eliminar_predios_xml returned for ruta_archivo

vars == <<pc, ruta_archivo, carpeta_enero, carpeta_dic, pendientes, comparados, acumulados_comunes,
          resultado_sin_interesados, resultado_sin_avaluos, resultado_cero,
          cola, esquemas, fallos, reporte, conjunto_land, predios_res, predios_sin_tram_res,
          predios_xml, unique_predios, eliminacion>>

(***************************************************************************)
(* Python values                                                            *)
(***************************************************************************)
PyNone == [t |-> "none"]

Str(s) == [t |-> "str", s |-> s]

Dict(d) == [t |-> "dict", d |-> d]

\* bool(x) of a value that is None or a str: None and '' are falsy
Truthy(v) == v.t = "str" /\ Len(v.s) > 0

Min(a, b) == IF a <= b THEN a ELSE b

MaxDe(S) == CHOOSE m \in S : \A n \in S : n <= m

\* s[:n] of a str
Prefijo(s, n) == SubSeq(s, 1, Min(n, Len(s)))

\* s[i] of a str (0-indexed), for i < len(s)
CharAt(s, i) == SubSeq(s, i + 1, i + 1)

Blancos == {" ", "\n", "\t"}

Digitos == {"0", "1", "2", "3", "4", "5", "6", "7", "8", "9"}

RECURSIVE LStrip(_)
LStrip(s) ==
    IF Len(s) > 0 /\ CharAt(s, 0) \in Blancos THEN LStrip(SubSeq(s, 2, Len(s))) ELSE s

RECURSIVE RStrip(_)
RStrip(s) ==
    IF Len(s) > 0 /\ CharAt(s, Len(s) - 1) \in Blancos
    THEN RStrip(SubSeq(s, 1, Len(s) - 1)) ELSE s

\* str.strip()
Strip(s) == RStrip(LStrip(s))

\* str.isdigit(): non-empty and every character a digit
IsDigit(s) == Len(s) > 0 /\ \A i \in 0..(Len(s) - 1) : CharAt(s, i) \in Digitos

ValorDigito(c) ==
    CASE c = "0" -> 0 [] c = "1" -> 1 [] c = "2" -> 2 [] c = "3" -> 3 [] c = "4" -> 4
      [] c = "5" -> 5 [] c = "6" -> 6 [] c = "7" -> 7 [] c = "8" -> 8 [] c = "9" -> 9

\* int(s) of a str of digits
RECURSIVE IntDe(_)
IntDe(s) ==
    IF Len(s) = 0 THEN 0
    ELSE 10 * IntDe(SubSeq(s, 1, Len(s) - 1)) + ValorDigito(CharAt(s, Len(s) - 1))

(***************************************************************************)
(* XML elements (xml.etree.ElementTree)                                     *)
(***************************************************************************)
Elem(tag, text, hijos) == [tag |-> tag, text |-> text, hijos |-> hijos]

\* a leaf element <tag>s</tag>
Hoja(tag, s) == Elem(tag, Str(s), <<>>)

\* a self-closing element <tag/>: no text, no children
Vacio(tag) == Elem(tag, PyNone, <<>>)

\* every descendant of e in document order
RECURSIVE Descendientes(_)
Descendientes(e) ==
    LET RECURSIVE Desde(_)
        Desde(i) ==
            IF i > Len(e.hijos) THEN <<>>
            ELSE <<e.hijos[i]>> \o Descendientes(e.hijos[i]) \o Desde(i + 1)
    IN Desde(1)

\* e.findall(tag): the direct children with that tag
FindAllHijos(e, tag) == SelectSeq(e.hijos, LAMBDA h : h.tag = tag)

\* e.findall(".//tag"): the descendants with that tag
FindAllDesc(e, tag) == SelectSeq(Descendientes(e), LAMBDA h : h.tag = tag)

\* A file is [ok |-> FALSE] when ET.parse raises, and [ok |-> TRUE, root |-> e] otherwise.
Malformado == [ok |-> FALSE]

Archivo(predios) == [ok |-> TRUE, root |-> Elem("registro_catastral", PyNone, predios)]

(***************************************************************************)
(* Completeness classifiers (consultas 1, 2 and 3)                          *)
(***************************************************************************)
\* root.findall(".//predio") of a parsed file
PrediosDe(archivo) == FindAllDesc(archivo.root, "predio")

\* d[k] = ... on a dict whose keys are kept in insertion order
Insertar(claves, k) ==
    IF \E i \in DOMAIN claves : claves[i] = k THEN claves ELSE Append(claves, k)

\* the dict returned when ET.parse or any record raises inside the try block
ResultadoError == [conteo |-> 0, numeros_prediales |-> <<>>]

Resultado(claves) == [conteo |-> Len(claves), numeros_prediales |-> claves]

\* predio.find(tag).text raises AttributeError when the element is absent
FindTextRaises(predio, tag) == Len(FindAllHijos(predio, tag)) = 0

FindText(predio, tag) == FindAllHijos(predio, tag)[1].text

\* --- consulta 1 ---
RaisesSinInteresados(predio) == FindTextRaises(predio, "codigo_predial_nacional")

CumpleSinInteresados(predio) ==
    LET codigo_predial == FindText(predio, "codigo_predial_nacional")
        interesados == FindAllDesc(predio, "interesados")
    IN (Len(interesados) = 0 \/ Len(interesados[1].hijos) = 0) /\ Truthy(codigo_predial)

\* --- consulta 2 ---
RaisesSinAvaluos(predio) ==
    LET avaluo == FindAllDesc(predio, "avaluo")
    IN \/ FindTextRaises(predio, "codigo_predial_nacional")
       \/ (Len(avaluo) # 0 /\ avaluo[1].text = PyNone)     \* None.strip()

CumpleSinAvaluos(predio) ==
    LET codigo_predial == FindText(predio, "codigo_predial_nacional")
        avaluo == FindAllDesc(predio, "avaluo")
    IN (Len(avaluo) = 0 \/ Len(Strip(avaluo[1].text.s)) = 0) /\ Truthy(codigo_predial)

\* --- consulta 3 ---
\* avaluo_valor = int(avaluo.text) if avaluo is not None and avaluo.text.isdigit() else 0
AvaluoValor(predio) ==
    LET avaluo == FindAllDesc(predio, "avaluo")
    IN IF Len(avaluo) # 0 /\ IsDigit(avaluo[1].text.s) THEN IntDe(avaluo[1].text.s) ELSE 0

RaisesAvaluoCero(predio) ==
    LET avaluo == FindAllDesc(predio, "avaluo")
    IN \/ FindTextRaises(predio, "codigo_predial_nacional")
       \/ FindTextRaises(predio, "condicion_predio")
       \/ (Len(avaluo) # 0 /\ avaluo[1].text = PyNone)     \* None.isdigit()
       \/ (AvaluoValor(predio) = 0                          \* len(None)
             /\ FindText(predio, "codigo_predial_nacional") = PyNone)

CumpleAvaluoCero(predio) ==
    LET codigo_predial == FindText(predio, "codigo_predial_nacional").s
        condicion_predio == FindText(predio, "condicion_predio")
        posicion_22 == IF Len(codigo_predial) >= 22
                       THEN Str(CharAt(codigo_predial, 21)) ELSE PyNone
    IN AvaluoValor(predio) = 0
         /\ (posicion_22 = Str("0") \/ condicion_predio = Str("NPH"))

Raises(consulta, predio) ==
    CASE consulta = "sin_interesados" -> RaisesSinInteresados(predio)
      [] consulta = "sin_avaluos" -> RaisesSinAvaluos(predio)
      [] consulta = "avaluo_cero" -> RaisesAvaluoCero(predio)

Cumple(consulta, predio) ==
    CASE consulta = "sin_interesados" -> CumpleSinInteresados(predio)
      [] consulta = "sin_avaluos" -> CumpleSinAvaluos(predio)
      [] consulta = "avaluo_cero" -> CumpleAvaluoCero(predio)

\* The loop of a classifier over the records of a file, with the dict it fills:
\* the keys of the records that qualify, in insertion order.
RECURSIVE Claves(_, _, _)
Claves(predios, consulta, claves) ==
    IF Len(predios) = 0 THEN claves
    ELSE Claves(Tail(predios), consulta,
                IF Cumple(consulta, Head(predios))
                THEN Insertar(claves, FindText(Head(predios), "codigo_predial_nacional").s)
                ELSE claves)

\* The try block of a classifier: ET.parse or any record raising gives the error result.
Clasificar(archivo, consulta) ==
    IF ~archivo.ok THEN ResultadoError
    ELSE LET predios == PrediosDe(archivo)
         IN IF \E i \in DOMAIN predios : Raises(consulta, predios[i]) THEN ResultadoError
            ELSE Resultado(Claves(predios, consulta, <<>>))

identificar_predios_sin_interesados(archivo) == Clasificar(archivo, "sin_interesados")

identificar_predios_sin_avaluos(archivo) == Clasificar(archivo, "sin_avaluos")

identificar_predios_avaluo_cero_o_condiciones(archivo) == Clasificar(archivo, "avaluo_cero")

(***************************************************************************)
(* Record extractor                                                         *)
(***************************************************************************)
\* parsear_elemento: each child tag maps to the nested dict of the child when it has
\* children and to its text otherwise; a later child of the same tag overwrites.
RECURSIVE parsear_elemento(_)
parsear_elemento(elemento) ==
    LET hijos == elemento.hijos
        tags == {hijos[i].tag : i \in DOMAIN hijos}
        ultimo(tag) == hijos[MaxDe({i \in DOMAIN hijos : hijos[i].tag = tag})]
    IN [tag \in tags |->
            IF Len(ultimo(tag).hijos) # 0
            THEN Dict(parsear_elemento(ultimo(tag)))
            ELSE ultimo(tag).text]

\* IndexarPredios without the test of the identifier's text: a record whose identifier
\* element is present without text is indexed under the empty identifier
RECURSIVE IndexarPredios_sinFiltro(_, _)
IndexarPredios_sinFiltro(lista, predios) ==
    IF Len(lista) = 0 THEN predios
    ELSE LET predio == Head(lista)
             codigo_predial == FindAllHijos(predio, "codigo_predial_nacional")
             clave == IF Truthy(codigo_predial[1].text) THEN codigo_predial[1].text.s ELSE ""
         IN IndexarPredios_sinFiltro(Tail(lista),
                IF Len(codigo_predial) # 0
                THEN [c \in DOMAIN predios \cup {clave} |->
                         IF c = clave THEN parsear_elemento(predio) ELSE predios[c]]
                ELSE predios)

\* the loop of obtener_predios_desde_xml: predios[codigo_predial.text] = parsear_elemento(predio)
RECURSIVE IndexarPredios(_, _)
IndexarPredios(lista, predios) ==
    IF Len(lista) = 0 THEN predios
    ELSE LET predio == Head(lista)
             codigo_predial == FindAllHijos(predio, "codigo_predial_nacional")
         IN IndexarPredios(Tail(lista),
                IF Len(codigo_predial) # 0 /\ Truthy(codigo_predial[1].text)
                THEN [c \in DOMAIN predios \cup {codigo_predial[1].text.s} |->
                         IF c = codigo_predial[1].text.s
                         THEN parsear_elemento(predio) ELSE predios[c]]
                ELSE predios)

\* obtener_predios_desde_xml: the Snapshot of a file; the except returns the dict as it
\* stands, which is empty because only ET.parse raises
obtener_predios_desde_xml(archivo) ==
    IF ~archivo.ok THEN <<>> ELSE IndexarPredios(PrediosDe(archivo), <<>>)

(***************************************************************************)
(* Snapshot differ                                                          *)
(***************************************************************************)
\* dict.get(key, None)
Get(d, key) == IF key \in DOMAIN d THEN d[key] ELSE PyNone

\* valor in [None, '', 'NULL']
EsNulo(valor) == valor \in {PyNone, Str(""), Str("NULL")}

\* valor in [0, 0.0]: equal to a number zero; a str never is
EsCero(valor) == valor.t \in {"int", "float"} /\ valor.n = 0

AtributosNombre == {"primer_nombre", "segundo_nombre", "primer_apellido", "segundo_apellido"}

\* `for interesado_enero in interesados_enero` raises TypeError unless the value is a
\* str (wrapped into a list first) or a dict
InteresadosRaises(interesados_enero) == interesados_enero.t \notin {"str", "dict"}

\* what the for loop of comparar_interesados iterates: the str itself, or the keys of the dict
ItemsInteresados(interesados_enero) ==
    CASE interesados_enero.t = "str" -> {interesados_enero}
      [] interesados_enero.t = "dict" -> {Str(k) : k \in DOMAIN interesados_enero.d}
      [] OTHER -> {}

\* comparar_interesados: True when a relevant difference exists.  The first branch of
\* the loop needs an item with an attribute `tag` (an Element), which no value of a
\* Snapshot is; the second needs an item that is a dict.
comparar_interesados(interesados_enero, interesados_dic) ==
    \E interesado_enero \in ItemsInteresados(interesados_enero) :
        /\ interesado_enero.t = "dict"
        /\ \E atributo \in AtributosNombre :
              LET valor_enero == Get(interesado_enero.d, atributo)
                  valor_dic == IF interesados_dic.t = "dict"
                               THEN Get(interesados_dic.d, atributo) ELSE PyNone
              IN valor_enero # Str("DESCONOCIDO") /\ valor_enero # valor_dic

Regla1(valor_enero, valor_dic) ==
    \/ (EsNulo(valor_enero) /\ EsCero(valor_dic))
    \/ (EsNulo(valor_dic) /\ EsCero(valor_enero))

Regla2(key, valor_enero) == key = "direccion" /\ valor_enero = Str("SIN DIRECCION")

Regla3(key, valor_enero, valor_dic) ==
    key = "interesados" /\ ~comparar_interesados(valor_enero, valor_dic)

\* the body of `for key in predio_enero.keys()` raises when it reaches comparar_interesados
\* with a value that cannot be iterated
CampoRaises(key, valor_enero, valor_dic) ==
    /\ ~Regla1(valor_enero, valor_dic)
    /\ ~Regla2(key, valor_enero)
    /\ key = "interesados"
    /\ InteresadosRaises(valor_enero)

\* CampoDifiere without regla 2
CampoDifiere_sinRegla2(key, valor_enero, valor_dic) ==
    /\ ~Regla1(valor_enero, valor_dic)
    /\ ~Regla3(key, valor_enero, valor_dic)
    /\ valor_enero # valor_dic

\* CampoDifiere without regla 3: interesados compared like any other field
CampoDifiere_sinRegla3(key, valor_enero, valor_dic) ==
    /\ ~Regla1(valor_enero, valor_dic)
    /\ ~Regla2(key, valor_enero)
    /\ valor_enero # valor_dic

\* the body of `for key in predio_enero.keys()` appends a delta for this field
CampoDifiere(key, valor_enero, valor_dic) ==
    /\ ~Regla1(valor_enero, valor_dic)
    /\ ~Regla2(key, valor_enero)
    /\ ~Regla3(key, valor_enero, valor_dic)
    /\ valor_enero # valor_dic

\* Diferencias over the fields of both records instead of those of the A side
Diferencias_ambosLados(predio_enero, predio_dic) ==
    {key \in DOMAIN predio_enero \cup DOMAIN predio_dic :
        CampoDifiere(key, Get(predio_enero, key), Get(predio_dic, key))}

\* diferencias of one common identifier: the fields of the A-side record with a delta
Diferencias(predio_enero, predio_dic) ==
    {key \in DOMAIN predio_enero :
        CampoDifiere(key, predio_enero[key], Get(predio_dic, key))}

PredioRaises(predio_enero, predio_dic) ==
    \E key \in DOMAIN predio_enero :
        CampoRaises(key, predio_enero[key], Get(predio_dic, key))

\* comparar_predios reporting every common identifier as changed, with or without deltas
comparar_predios_todosComunes(predios_enero, predios_dic) ==
    LET codigos_enero == DOMAIN predios_enero
        codigos_dic == DOMAIN predios_dic
        comunes == codigos_enero \cap codigos_dic
    IN [raises |-> \E codigo \in comunes :
                       PredioRaises(predios_enero[codigo], predios_dic[codigo]),
        unicos_enero |-> codigos_enero \ codigos_dic,
        unicos_dic |-> codigos_dic \ codigos_enero,
        diferencias |->
            [codigo \in comunes |-> Diferencias(predios_enero[codigo], predios_dic[codigo])],
        predios_con_diferencias |-> comunes]

\* comparar_predios without its update of acumulados_comunes: what it reports, and
\* whether the loop over the common identifiers raises
comparar_predios(predios_enero, predios_dic) ==
    LET codigos_enero == DOMAIN predios_enero
        codigos_dic == DOMAIN predios_dic
        comunes == codigos_enero \cap codigos_dic
    IN [raises |-> \E codigo \in comunes :
                       PredioRaises(predios_enero[codigo], predios_dic[codigo]),
        unicos_enero |-> codigos_enero \ codigos_dic,
        unicos_dic |-> codigos_dic \ codigos_enero,
        diferencias |->
            [codigo \in comunes |-> Diferencias(predios_enero[codigo], predios_dic[codigo])],
        predios_con_diferencias |->
            {codigo \in comunes :
                Diferencias(predios_enero[codigo], predios_dic[codigo]) # {}}]

(***************************************************************************)
(* Input files of the bounded model                                         *)
(***************************************************************************)
\* 30 characters, '0' at 0-indexed position 21
CodigoA == "250190001000000010001000000000"

\* 30 characters, '9' at 0-indexed position 21
CodigoB == "250190001000000010001900000000"

\* shorter than 22 characters (and than 5)
CodigoCorto == "250"

\* the sequences over S of length at most n
SeqHasta(S, n) == UNION {[1..k -> S] : k \in 0..n}

\* most records a file of the classifier runs holds
MaxPredios == 2

PersonaJuan ==
    Elem("persona_natural", PyNone,
         <<Hoja("primer_nombre", "JUAN"), Hoja("primer_apellido", "PEREZ")>>)

\* a <predio> whose children are the given optional elements (each a sequence of 0 or 1)
Predio(codigo, condicion, avaluo, direccion, interesados) ==
    Elem("predio", PyNone, codigo \o condicion \o avaluo \o direccion \o interesados)

ConInteresado == <<Elem("interesados", PyNone, <<PersonaJuan>>)>>

\* the records of the classifier runs: the table of consulta 3 over well-formed
\* records, then one field at a time absent, empty or malformed
PrediosClasif ==
    {Predio(<<Hoja("codigo_predial_nacional", c)>>, <<Hoja("condicion_predio", k)>>,
            <<Hoja("avaluo", a)>>, <<>>, ConInteresado) :
        c \in {CodigoA, CodigoB, CodigoCorto}, k \in {"NPH", "PH"}, a \in {"0", "1500"}}
    \cup
    {Predio(<<Hoja("codigo_predial_nacional", CodigoA)>>, <<Hoja("condicion_predio", "NPH")>>,
            a, <<>>, ConInteresado) :
        a \in {<<>>, <<Vacio("avaluo")>>, <<Hoja("avaluo", " \n ")>>, <<Hoja("avaluo", "1500.50")>>}}
    \cup
    {Predio(<<Hoja("codigo_predial_nacional", CodigoB)>>, <<Hoja("condicion_predio", "PH")>>,
            <<Hoja("avaluo", "1500")>>, <<>>, i) :
        i \in {<<>>, <<Vacio("interesados")>>, <<Hoja("interesados", "\n")>>}}
    \cup
    {Predio(c, <<Hoja("condicion_predio", "NPH")>>, <<>>, <<>>, <<>>) :
        c \in {<<>>, <<Vacio("codigo_predial_nacional")>>}}
    \cup
    {Predio(<<Hoja("codigo_predial_nacional", CodigoA)>>, <<>>,
            <<Hoja("avaluo", "0")>>, <<>>, ConInteresado)}

ArchivosClasif == {Malformado} \cup {Archivo(ps) : ps \in SeqHasta(PrediosClasif, MaxPredios)}

Pendiente == [conteo |-> -1, numeros_prediales |-> <<>>]

(***************************************************************************)
(* The classifier run: the body of main's loop over the valid files, which  *)
(* hands one file to consulta 1, consulta 2 and consulta 3 in turn          *)
(***************************************************************************)
InitClasif ==
    /\ pc = "consulta1"
    /\ ruta_archivo \in ArchivosClasif
    /\ resultado_sin_interesados = Pendiente
    /\ resultado_sin_avaluos = Pendiente
    /\ resultado_cero = Pendiente
    /\ carpeta_enero = <<>>
    /\ carpeta_dic = <<>>
    /\ pendientes = {}
    /\ comparados = <<>>
    /\ acumulados_comunes = {}
    /\ cola = <<>>
    /\ esquemas = <<>>
    /\ fallos = {}
    /\ reporte = <<>>
    /\ conjunto_land = {}
    /\ predios_res = {}
    /\ predios_sin_tram_res = {}
    /\ predios_xml = <<>>
    /\ unique_predios = {}
    /\ eliminacion = Pendiente

noClasif == <<carpeta_enero, carpeta_dic, pendientes, comparados, acumulados_comunes, cola,
              esquemas, fallos, reporte, conjunto_land, predios_res, predios_sin_tram_res,
              predios_xml, unique_predios, eliminacion>>

Consulta1 ==
    /\ pc = "consulta1"
    /\ resultado_sin_interesados' = identificar_predios_sin_interesados(ruta_archivo)
    /\ pc' = "consulta2"
    /\ UNCHANGED <<ruta_archivo, resultado_sin_avaluos, resultado_cero, noClasif>>

Consulta2 ==
    /\ pc = "consulta2"
    /\ resultado_sin_avaluos' = identificar_predios_sin_avaluos(ruta_archivo)
    /\ pc' = "consulta3"
    /\ UNCHANGED <<ruta_archivo, resultado_sin_interesados, resultado_cero, noClasif>>

Consulta3 ==
    /\ pc = "consulta3"
    /\ resultado_cero' = identificar_predios_avaluo_cero_o_condiciones(ruta_archivo)
    /\ pc' = "clasificado"
    /\ UNCHANGED <<ruta_archivo, resultado_sin_interesados, resultado_sin_avaluos, noClasif>>

NextClasif == Consulta1 \/ Consulta2 \/ Consulta3

SpecClasif == InitClasif /\ [][NextClasif]_vars

(***************************************************************************)
(* procesar_carpetas: the differ over the file pairs of two folders         *)
(***************************************************************************)
\* f.endswith('.xml')
EsXml(f) == Len(f) >= 4 /\ SubSeq(f, Len(f) - 3, Len(f)) = ".xml"

\* os.path.splitext(f)[0] of a name that ends with .xml
BaseDe(f) == SubSeq(f, 1, Len(f) - 4)

\* archivos_enero.keys() / archivos_dic.keys()
BasesXml(carpeta) == {BaseDe(f) : f \in {g \in DOMAIN carpeta : EsXml(g)}}

archivos_comunes == BasesXml(carpeta_enero) \cap BasesXml(carpeta_dic)

Municipio1 == "Registro_catastral_25019.xml"

Municipio2 == "Registro_catastral_25040.xml"

PersonaDe(nombre) ==
    Elem("persona_natural", PyNone,
         <<Hoja("primer_nombre", nombre), Hoja("primer_apellido", "PEREZ")>>)

PredioBase ==
    Predio(<<Hoja("codigo_predial_nacional", CodigoA)>>, <<>>, <<Hoja("avaluo", "1500")>>,
           <<Hoja("direccion", "CALLE 10 # 5-20")>>,
           <<Elem("interesados", PyNone, <<PersonaDe("JUAN")>>)>>)

\* the records of the differ runs: a base record and the records that differ from it
\* in one field (absent, empty, a sentinel or another value), or by one more field
PrediosDif ==
    {PredioBase}
    \cup
    {Predio(c, <<>>, <<Hoja("avaluo", "1500")>>, <<Hoja("direccion", "CALLE 10 # 5-20")>>,
            <<Elem("interesados", PyNone, <<PersonaDe("JUAN")>>)>>) :
        c \in {<<>>, <<Vacio("codigo_predial_nacional")>>,
               <<Hoja("codigo_predial_nacional", CodigoB)>>}}
    \cup
    {Predio(<<Hoja("codigo_predial_nacional", CodigoA)>>, <<>>, a,
            <<Hoja("direccion", "CALLE 10 # 5-20")>>,
            <<Elem("interesados", PyNone, <<PersonaDe("JUAN")>>)>>) :
        a \in {<<>>, <<Vacio("avaluo")>>, <<Hoja("avaluo", "0")>>, <<Hoja("avaluo", "0.0")>>,
               <<Hoja("avaluo", "NULL")>>}}
    \cup
    {Predio(<<Hoja("codigo_predial_nacional", CodigoA)>>, <<>>, <<Hoja("avaluo", "1500")>>, d,
            <<Elem("interesados", PyNone, <<PersonaDe("JUAN")>>)>>) :
        d \in {<<>>, <<Hoja("direccion", "SIN DIRECCION")>>, <<Hoja("direccion", "CARRERA 7")>>}}
    \cup
    {Predio(<<Hoja("codigo_predial_nacional", CodigoA)>>, <<>>, <<Hoja("avaluo", "1500")>>,
            <<Hoja("direccion", "CALLE 10 # 5-20")>>, i) :
        i \in {<<>>, <<Vacio("interesados")>>, <<Hoja("interesados", "\n")>>,
               <<Elem("interesados", PyNone, <<PersonaDe("DESCONOCIDO")>>)>>,
               <<Elem("interesados", PyNone, <<PersonaDe("ANA")>>)>>}}
    \cup
    {Predio(<<Hoja("codigo_predial_nacional", CodigoA)>>, <<Hoja("condicion_predio", "NPH")>>,
            <<Hoja("avaluo", "1500")>>, <<Hoja("direccion", "CALLE 10 # 5-20")>>,
            <<Elem("interesados", PyNone, <<PersonaDe("JUAN")>>)>>)}

\* most records a file of the differ runs holds
MaxPrediosDif == 1

ArchivosDif == {Malformado} \cup {Archivo(ps) : ps \in SeqHasta(PrediosDif, MaxPrediosDif)}

InitDif ==
    /\ pc = "procesar_carpetas"
    /\ \E enero, dic \in ArchivosDif :
          /\ carpeta_enero = [f \in {Municipio1} |-> enero]
          /\ carpeta_dic = [f \in {Municipio1} |-> dic]
    /\ pendientes = {}
    /\ comparados = <<>>
    /\ acumulados_comunes = {}
    /\ ruta_archivo = Malformado
    /\ resultado_sin_interesados = Pendiente
    /\ resultado_sin_avaluos = Pendiente
    /\ resultado_cero = Pendiente
    /\ cola = <<>>
    /\ esquemas = <<>>
    /\ fallos = {}
    /\ reporte = <<>>
    /\ conjunto_land = {}
    /\ predios_res = {}
    /\ predios_sin_tram_res = {}
    /\ predios_xml = <<>>
    /\ unique_predios = {}
    /\ eliminacion = Pendiente

noProcesar == <<ruta_archivo, resultado_sin_interesados, resultado_sin_avaluos, resultado_cero,
                cola, esquemas, fallos, reporte, conjunto_land, predios_res,
                predios_sin_tram_res, predios_xml,
                unique_predios, eliminacion>>

\* lines 423-429: the base names present in both folders
IniciarProcesar ==
    /\ pc = "procesar_carpetas"
    /\ pendientes' = archivos_comunes
    /\ pc' = "comparando"
    /\ UNCHANGED <<carpeta_enero, carpeta_dic, comparados, acumulados_comunes, noProcesar>>

\* lines 437-439: the two Snapshots of a pair and what comparar_predios reports for them
ResultadoDe(archivo) ==
    LET predios_enero == obtener_predios_desde_xml(carpeta_enero[archivo \o ".xml"])
        predios_dic == obtener_predios_desde_xml(carpeta_dic[archivo \o ".xml"])
    IN comparar_predios(predios_enero, predios_dic) @@
           [predios_enero |-> predios_enero, predios_dic |-> predios_dic]

Anotar(archivo, r) ==
    [a \in DOMAIN comparados \cup {archivo} |-> IF a = archivo THEN r ELSE comparados[a]]

\* CompararArchivo assigning the identifiers that differ to acumulados_comunes
\* instead of updating it
CompararArchivo_reemplaza ==
    /\ pc = "comparando"
    /\ \E archivo \in pendientes :
          LET r == ResultadoDe(archivo)
          IN /\ ~r.raises
             /\ acumulados_comunes' = r.predios_con_diferencias
             /\ comparados' = Anotar(archivo, r)
             /\ pendientes' = pendientes \ {archivo}
    /\ pc' = pc
    /\ UNCHANGED <<carpeta_enero, carpeta_dic, noProcesar>>

\* CompararArchivo without the update of acumulados_comunes
CompararArchivo_sinActualizar ==
    /\ pc = "comparando"
    /\ \E archivo \in pendientes :
          LET r == ResultadoDe(archivo)
          IN /\ ~r.raises
             /\ comparados' = Anotar(archivo, r)
             /\ pendientes' = pendientes \ {archivo}
    /\ pc' = pc
    /\ UNCHANGED <<carpeta_enero, carpeta_dic, acumulados_comunes, noProcesar>>

\* CompararArchivo leaving the loop after the first pair
CompararArchivo_unaVez ==
    /\ pc = "comparando"
    /\ \E archivo \in pendientes :
          LET r == ResultadoDe(archivo)
          IN /\ ~r.raises
             /\ acumulados_comunes' = acumulados_comunes \cup r.predios_con_diferencias
             /\ comparados' = Anotar(archivo, r)
             /\ pendientes' = {}
    /\ pc' = pc
    /\ UNCHANGED <<carpeta_enero, carpeta_dic, noProcesar>>

\* one iteration of the loop of lines 432-439: both files are extracted and compared,
\* and acumulados_comunes is updated with the identifiers that differ
CompararArchivo ==
    /\ pc = "comparando"
    /\ \E archivo \in pendientes :
          LET r == ResultadoDe(archivo)
          IN /\ ~r.raises
             /\ acumulados_comunes' = acumulados_comunes \cup r.predios_con_diferencias
             /\ comparados' = Anotar(archivo, r)
             /\ pendientes' = pendientes \ {archivo}
    /\ pc' = pc
    /\ UNCHANGED <<carpeta_enero, carpeta_dic, noProcesar>>

\* the same iteration when comparar_interesados raises TypeError: nothing catches it
\* in comparar_predios, procesar_carpetas or main, and the run ends there.  The loop
\* over the set `comunes` has reported the identifiers it reached before the one that
\* raises, in an order the set decides, and acumulados_comunes is not updated.
CompararArchivoError ==
    /\ pc = "comparando"
    /\ \E archivo \in pendientes :
          LET r == ResultadoDe(archivo)
              antes == {codigo \in r.predios_con_diferencias :
                           ~PredioRaises(r.predios_enero[codigo], r.predios_dic[codigo])}
          IN /\ r.raises
             /\ \E parcial \in SUBSET antes :
                   comparados' = Anotar(archivo,
                       [r EXCEPT !.predios_con_diferencias = parcial,
                                 !.diferencias = [codigo \in parcial |-> r.diferencias[codigo]]])
    /\ pc' = "TypeError"
    /\ UNCHANGED <<carpeta_enero, carpeta_dic, pendientes, acumulados_comunes, noProcesar>>

\* line 441
FinProcesar ==
    /\ pc = "comparando"
    /\ pendientes = {}
    /\ pc' = "procesado"
    /\ UNCHANGED <<carpeta_enero, carpeta_dic, pendientes, comparados, acumulados_comunes,
                   noProcesar>>

NextDif == IniciarProcesar \/ CompararArchivo \/ CompararArchivoError \/ FinProcesar

SpecDif == InitDif /\ [][NextDif]_vars

(***************************************************************************)
(* The extractor on one file: obtener_predios_desde_xml as procesar_carpetas *)
(* calls it on each file of a pair                                          *)
(***************************************************************************)
\* most records a file of the extractor runs holds
MaxPrediosExt == 2

ArchivosExt == {Malformado} \cup {Archivo(ps) : ps \in SeqHasta(PrediosDif, MaxPrediosExt)}

InitExt ==
    /\ pc = "extraer"
    /\ ruta_archivo \in ArchivosExt
    /\ predios_xml = <<>>
    /\ unique_predios = {}
    /\ eliminacion = Pendiente
    /\ resultado_sin_interesados = Pendiente
    /\ resultado_sin_avaluos = Pendiente
    /\ resultado_cero = Pendiente
    /\ carpeta_enero = <<>>
    /\ carpeta_dic = <<>>
    /\ pendientes = {}
    /\ comparados = <<>>
    /\ acumulados_comunes = {}
    /\ cola = <<>>
    /\ esquemas = <<>>
    /\ fallos = {}
    /\ reporte = <<>>
    /\ conjunto_land = {}
    /\ predios_res = {}
    /\ predios_sin_tram_res = {}

\* lines 437-438: predios_enero = obtener_predios_desde_xml(ruta_enero), and the same
\* for the file of diciembre
Extraer ==
    /\ pc = "extraer"
    /\ predios_xml' = obtener_predios_desde_xml(ruta_archivo)
    /\ pc' = "extraido"
    /\ UNCHANGED <<ruta_archivo, resultado_sin_interesados, resultado_sin_avaluos,
                   resultado_cero, carpeta_enero, carpeta_dic, pendientes, comparados,
                   acumulados_comunes, cola, esquemas, fallos, reporte, conjunto_land,
                   predios_res, predios_sin_tram_res, unique_predios, eliminacion>>

NextExt == Extraer

SpecExt == InitExt /\ [][NextExt]_vars

(***************************************************************************)
(* main: the differ over the folders, the classifiers over the valid files, *)
(* the two reference sources and the cross-reference                        *)
(***************************************************************************)
\* an identifier of the second municipality
CodigoC == "250400001000000010001000000000"

\* re.match(r"^Registro_catastral_25\d{3}\.xml$", f)
NombreValido(f) ==
    /\ Len(f) = 28
    /\ SubSeq(f, 1, 21) = "Registro_catastral_25"
    /\ IsDigit(SubSeq(f, 22, 24))
    /\ SubSeq(f, 25, 28) = ".xml"

\* re.match(r'^cun25\d{3}$', esquema)
EsquemaValido(esquema) ==
    /\ Len(esquema) = 8
    /\ SubSeq(esquema, 1, 5) = "cun25"
    /\ IsDigit(SubSeq(esquema, 6, 8))

\* the file names of the model in sorted order
NombresOrdenados == <<Municipio1, Municipio2>>

\* validar_carpetas_y_archivos: the sorted valid names of a folder
archivos_validos(carpeta) ==
    SelectSeq(NombresOrdenados, LAMBDA f : f \in DOMAIN carpeta /\ NombreValido(f))

\* the files main classifies: the valid ones of 2024, then those of 2025
ColaDe(enero, dic) ==
    LET v2024 == archivos_validos(enero)
        v2025 == archivos_validos(dic)
    IN [i \in 1..Len(v2024) |-> enero[v2024[i]]] \o [i \in 1..Len(v2025) |-> dic[v2025[i]]]

\* a < b for two str of digits, as Python orders str
RECURSIVE MenorQue(_, _)
MenorQue(a, b) ==
    IF Len(a) = 0 THEN Len(b) > 0
    ELSE IF Len(b) = 0 THEN FALSE
    ELSE IF CharAt(a, 0) = CharAt(b, 0)
         THEN MenorQue(SubSeq(a, 2, Len(a)), SubSeq(b, 2, Len(b)))
         ELSE ValorDigito(CharAt(a, 0)) < ValorDigito(CharAt(b, 0))

\* sorted(list(S)) of a set of str
RECURSIVE Sorted(_)
Sorted(S) ==
    IF S = {} THEN <<>>
    ELSE LET menor == CHOOSE x \in S : \A y \in S : x = y \/ MenorQue(x, y)
         IN <<menor>> \o Sorted(S \ {menor})

\* the loop of extraer_primeros_5 with a first count of 0 instead of 1
RECURSIVE ContarPrimeros5_desdeCero(_, _)
ContarPrimeros5_desdeCero(predios, conteo) ==
    IF Len(predios) = 0 THEN conteo
    ELSE LET clave == Prefijo(Head(predios), 5)
         IN ContarPrimeros5_desdeCero(Tail(predios),
                IF clave \in DOMAIN conteo
                THEN [conteo EXCEPT ![clave] = @ + 1]
                ELSE conteo @@ (clave :> 0))

\* the loop of extraer_primeros_5 over the list, with the dict conteo it fills
RECURSIVE ContarPrimeros5(_, _)
ContarPrimeros5(predios, conteo) ==
    IF Len(predios) = 0 THEN conteo
    ELSE LET clave == Prefijo(Head(predios), 5)
         IN ContarPrimeros5(Tail(predios),
                IF clave \in DOMAIN conteo
                THEN [conteo EXCEPT ![clave] = @ + 1]
                ELSE conteo @@ (clave :> 1))

\* extraer_primeros_5: the count of the identifiers of a list per key predio[:5]
extraer_primeros_5(predios) == ContarPrimeros5(predios, <<>>)

PredioMain(codigo, avaluo, interesados) ==
    Predio(<<Hoja("codigo_predial_nacional", codigo)>>, <<Hoja("condicion_predio", "NPH")>>,
           <<Hoja("avaluo", avaluo)>>, <<>>, interesados)

\* the files of one municipality in the runs of main
ArchivosMain(codigo) ==
    {Malformado,
     Archivo(<<PredioMain(codigo, "1500", ConInteresado)>>),
     Archivo(<<PredioMain(codigo, "2000", ConInteresado)>>),
     Archivo(<<PredioMain(codigo, "1500", <<Vacio("interesados")>>)>>)}

\* what `SELECT t2.land ...` may return: rows with a land or with NULL
FilasLand == SUBSET {PyNone, Str(CodigoA), Str(CodigoC)}

\* what `SELECT schema_name FROM information_schema.schemata` may return
ListasEsquemas == {<<"cun25019", "cun25040", "public">>, <<"public">>}

\* what the query of one schema may return
FilasRes(esquema) == IF esquema = "cun25019" THEN SUBSET {CodigoA} ELSE SUBSET {CodigoC}

\* os.listdir of the folder of diciembre: both municipalities, or the second one missing
NombresDic == {{Municipio1, Municipio2}, {Municipio1}}

InitMain ==
    /\ pc = "main"
    /\ \E e1, d1 \in ArchivosMain(CodigoA), e2, d2 \in ArchivosMain(CodigoC),
          nombres_dic \in NombresDic :
          /\ carpeta_enero = [f \in {Municipio1, Municipio2} |-> IF f = Municipio1 THEN e1 ELSE e2]
          /\ carpeta_dic = [f \in nombres_dic |-> IF f = Municipio1 THEN d1 ELSE d2]
    /\ pendientes = {}
    /\ comparados = <<>>
    /\ acumulados_comunes = {}
    /\ ruta_archivo = Malformado
    /\ resultado_sin_interesados = Pendiente
    /\ resultado_sin_avaluos = Pendiente
    /\ resultado_cero = Pendiente
    /\ cola = <<>>
    /\ esquemas = <<>>
    /\ fallos = {}
    /\ reporte = <<>>
    /\ conjunto_land = {}
    /\ predios_res = {}
    /\ predios_sin_tram_res = {}
    /\ predios_xml = <<>>
    /\ unique_predios = {}
    /\ eliminacion = Pendiente

soloMain == <<carpeta_enero, carpeta_dic, pendientes, comparados, acumulados_comunes,
              ruta_archivo, resultado_sin_interesados, resultado_sin_avaluos, resultado_cero,
              predios_xml, unique_predios, eliminacion>>

\* lines 608-614: the connection to the tramites database succeeds, and the folders
\* are validated
ConectarTramites ==
    /\ pc = "main"
    /\ cola' = ColaDe(carpeta_enero, carpeta_dic)
    /\ pc' = "procesar_carpetas"
    /\ UNCHANGED <<soloMain, esquemas, fallos, reporte, conjunto_land, predios_res,
                   predios_sin_tram_res>>

\* lines 608-611: connect_to_db returns None and main returns
ConectarTramitesError ==
    /\ pc = "main"
    /\ fallos' = fallos \cup {"conexion_tramites"}
    /\ pc' = "terminado"
    /\ UNCHANGED <<soloMain, cola, esquemas, reporte, conjunto_land, predios_res,
                   predios_sin_tram_res>>

\* lines 620-621 and 661-662: the next valid file of the two loops
SiguienteArchivo ==
    /\ pc \in {"procesado", "clasificado"}
    /\ cola # <<>>
    /\ ruta_archivo' = Head(cola)
    /\ cola' = Tail(cola)
    /\ resultado_sin_interesados' = Pendiente
    /\ resultado_sin_avaluos' = Pendiente
    /\ resultado_cero' = Pendiente
    /\ pc' = "consulta1"
    /\ UNCHANGED <<carpeta_enero, carpeta_dic, pendientes, comparados, acumulados_comunes,
                   esquemas, fallos, reporte, conjunto_land, predios_res, predios_sin_tram_res,
                   predios_xml, unique_predios, eliminacion>>

\* lines 699-717: extract_land_data returns the lands that are not NULL, and main reports
\* the changed identifiers without tramite
ExtraerTramites ==
    /\ pc \in {"procesado", "clasificado"}
    /\ cola = <<>>
    /\ \E filas \in FilasLand :
          conjunto_land' = {fila.s : fila \in {f \in filas : f # PyNone}}
    /\ reporte' = reporte @@
          ("predios_modificaciones_sin_tramite" :> (acumulados_comunes \ conjunto_land'))
    /\ pc' = "resoluciones"
    /\ UNCHANGED <<soloMain, cola, esquemas, fallos, predios_res, predios_sin_tram_res>>

\* the same when the query raises: the except of extract_land_data returns set()
ExtraerTramitesError ==
    /\ pc \in {"procesado", "clasificado"}
    /\ cola = <<>>
    /\ conjunto_land' = {}
    /\ fallos' = fallos \cup {"consulta_tramites"}
    /\ reporte' = reporte @@
          ("predios_modificaciones_sin_tramite" :> (acumulados_comunes \ conjunto_land'))
    /\ pc' = "resoluciones"
    /\ UNCHANGED <<soloMain, cola, esquemas, predios_res, predios_sin_tram_res>>

\* line 562: connect_to_db_res succeeds
ConectarResoluciones ==
    /\ pc = "resoluciones"
    /\ pc' = "esquemas"
    /\ UNCHANGED <<soloMain, cola, esquemas, fallos, reporte, conjunto_land, predios_res,
                   predios_sin_tram_res>>

\* lines 562-571: connect_to_db_res returns None and analizar_db_resoluciones returns set()
ConectarResolucionesError ==
    /\ pc = "resoluciones"
    /\ fallos' = fallos \cup {"conexion_resoluciones"}
    /\ predios_res' = {}
    /\ pc' = "cruzar"
    /\ UNCHANGED <<soloMain, cola, esquemas, reporte, conjunto_land, predios_sin_tram_res>>

\* lines 564-566: obtener_esquemas keeps the schemas named cun25XXX
ObtenerEsquemas ==
    /\ pc = "esquemas"
    /\ \E lista \in ListasEsquemas :
          /\ esquemas' = SelectSeq(lista, EsquemaValido)
          /\ pc' = IF esquemas' # <<>> THEN "consultar" ELSE "cruzar"
    /\ predios_res' = {}
    /\ UNCHANGED <<soloMain, cola, fallos, reporte, conjunto_land, predios_sin_tram_res>>

\* lines 518-520: the except of obtener_esquemas returns [], so no schema is queried
ObtenerEsquemasError ==
    /\ pc = "esquemas"
    /\ esquemas' = <<>>
    /\ fallos' = fallos \cup {"esquemas"}
    /\ predios_res' = {}
    /\ pc' = "cruzar"
    /\ UNCHANGED <<soloMain, cola, reporte, conjunto_land, predios_sin_tram_res>>

\* lines 530-552: the query of one schema adds its rows to conteo_acumulado
ConsultarEsquema ==
    /\ pc = "consultar"
    /\ esquemas # <<>>
    /\ \E filas \in FilasRes(Head(esquemas)) : predios_res' = predios_res \cup filas
    /\ esquemas' = Tail(esquemas)
    /\ pc' = IF esquemas' # <<>> THEN "consultar" ELSE "cruzar"
    /\ UNCHANGED <<soloMain, cola, fallos, reporte, conjunto_land, predios_sin_tram_res>>

\* lines 556-558: the query of one schema raises; the except returns conteo_acumulado
\* as it stands, without the remaining schemas
ConsultarEsquemaError ==
    /\ pc = "consultar"
    /\ esquemas # <<>>
    /\ fallos' = fallos \cup {"consulta_esquema"}
    /\ esquemas' = <<>>
    /\ pc' = "cruzar"
    /\ UNCHANGED <<soloMain, cola, reporte, conjunto_land, predios_res, predios_sin_tram_res>>

\* CruzarReferencias without the subtraction of predios_res
CruzarReferencias_sinResoluciones ==
    /\ pc = "cruzar"
    /\ predios_sin_tram_res' = acumulados_comunes \ conjunto_land
    /\ reporte' = reporte @@
          ("predios_modificaciones_sin_res" :> (acumulados_comunes \ predios_res)) @@
          ("predios_sin_tram_res" :> predios_sin_tram_res') @@
          ("lista_predios" :> Sorted(predios_sin_tram_res')) @@
          ("conteo_predios" :> extraer_primeros_5(Sorted(predios_sin_tram_res'))) @@
          ("interseccion_tramites" :> (acumulados_comunes \cap conjunto_land)) @@
          ("interseccion_resoluciones" :> (acumulados_comunes \cap predios_res)) @@
          ("interseecion_tra_res" :> (conjunto_land \cap predios_res)) @@
          ("interseecion_xml_tra_res" :>
              ((acumulados_comunes \cap conjunto_land) \cap (acumulados_comunes \cap predios_res)))
    /\ pc' = "terminado"
    /\ UNCHANGED <<soloMain, cola, esquemas, fallos, conjunto_land, predios_res>>

\* CruzarReferencias with the full intersection taken between the two reference sets
\* instead of between the two intersections with acumulados_comunes
CruzarReferencias_interseccionReferencias ==
    /\ pc = "cruzar"
    /\ predios_sin_tram_res' = (acumulados_comunes \ conjunto_land) \ predios_res
    /\ reporte' = reporte @@
          ("predios_modificaciones_sin_res" :> (acumulados_comunes \ predios_res)) @@
          ("predios_sin_tram_res" :> predios_sin_tram_res') @@
          ("lista_predios" :> Sorted(predios_sin_tram_res')) @@
          ("conteo_predios" :> extraer_primeros_5(Sorted(predios_sin_tram_res'))) @@
          ("interseccion_tramites" :> (acumulados_comunes \cap conjunto_land)) @@
          ("interseccion_resoluciones" :> (acumulados_comunes \cap predios_res)) @@
          ("interseecion_tra_res" :> (conjunto_land \cap predios_res)) @@
          ("interseecion_xml_tra_res" :> (conjunto_land \cap predios_res))
    /\ pc' = "terminado"
    /\ UNCHANGED <<soloMain, cola, esquemas, fallos, conjunto_land, predios_res>>

\* lines 723-782: the set differences, the count per municipality and the intersections
CruzarReferencias ==
    /\ pc = "cruzar"
    /\ predios_sin_tram_res' = (acumulados_comunes \ conjunto_land) \ predios_res
    /\ reporte' = reporte @@
          ("predios_modificaciones_sin_res" :> (acumulados_comunes \ predios_res)) @@
          ("predios_sin_tram_res" :> predios_sin_tram_res') @@
          ("lista_predios" :> Sorted(predios_sin_tram_res')) @@
          ("conteo_predios" :> extraer_primeros_5(Sorted(predios_sin_tram_res'))) @@
          ("interseccion_tramites" :> (acumulados_comunes \cap conjunto_land)) @@
          ("interseccion_resoluciones" :> (acumulados_comunes \cap predios_res)) @@
          ("interseecion_tra_res" :> (conjunto_land \cap predios_res)) @@
          ("interseecion_xml_tra_res" :>
              ((acumulados_comunes \cap conjunto_land) \cap (acumulados_comunes \cap predios_res)))
    /\ pc' = "terminado"
    /\ UNCHANGED <<soloMain, cola, esquemas, fallos, conjunto_land, predios_res>>

NextMain ==
    \/ ConectarTramites \/ ConectarTramitesError
    \/ IniciarProcesar \/ CompararArchivo \/ CompararArchivoError \/ FinProcesar
    \/ SiguienteArchivo \/ Consulta1 \/ Consulta2 \/ Consulta3
    \/ ExtraerTramites \/ ExtraerTramitesError
    \/ ConectarResoluciones \/ ConectarResolucionesError
    \/ ObtenerEsquemas \/ ObtenerEsquemasError
    \/ ConsultarEsquema \/ ConsultarEsquemaError
    \/ CruzarReferencias

SpecMain == InitMain /\ [][NextMain]_vars

(***************************************************************************)
(* The cross-reference of main on every accumulator and pair of reference   *)
(* sets over a few identifiers                                              *)
(***************************************************************************)
\* two identifiers of one municipality, one of another, and one shorter than 5 characters
Identificadores == {CodigoA, CodigoB, CodigoC, CodigoCorto}

InitCruce ==
    /\ pc = "cruzar"
    /\ acumulados_comunes \in SUBSET Identificadores
    /\ conjunto_land \in SUBSET Identificadores
    /\ predios_res \in SUBSET Identificadores
    /\ predios_sin_tram_res = {}
    /\ reporte = <<>>
    /\ carpeta_enero = <<>>
    /\ carpeta_dic = <<>>
    /\ pendientes = {}
    /\ comparados = <<>>
    /\ ruta_archivo = Malformado
    /\ predios_xml = <<>>
    /\ unique_predios = {}
    /\ eliminacion = Pendiente
    /\ resultado_sin_interesados = Pendiente
    /\ resultado_sin_avaluos = Pendiente
    /\ resultado_cero = Pendiente
    /\ cola = <<>>
    /\ esquemas = <<>>
    /\ fallos = {}

NextCruce == CruzarReferencias

SpecCruce == InitCruce /\ [][NextCruce]_vars

(***************************************************************************)
(* Eliminar_predios_xml.py: process_xml on one file and one deletion set   *)
(***************************************************************************)
\* line 39, e.findall(".//tag") by position: the path of child indices from e to each descendant
\* with that tag, in document order.  Element.remove compares by identity, so the
\* elements of the list are told apart by where they are.
RECURSIVE RutasDesc(_, _)
RutasDesc(e, tag) ==
    LET RECURSIVE Desde(_)
        Desde(i) ==
            IF i > Len(e.hijos) THEN <<>>
            ELSE LET sub == RutasDesc(e.hijos[i], tag)
                 IN (IF e.hijos[i].tag = tag THEN << <<i>> >> ELSE <<>>)
                        \o [k \in 1..Len(sub) |-> <<i>> \o sub[k]]
                        \o Desde(i + 1)
    IN Desde(1)

\* the element at a path below e
RECURSIVE ElementoEn(_, _)
ElementoEn(e, ruta) ==
    IF Len(ruta) = 0 THEN e ELSE ElementoEn(e.hijos[ruta[1]], Tail(ruta))

\* predio.find("codigo_predial_nacional").text.strip() raises AttributeError when the
\* element is absent (find returns None) or has no text (text is None)
CodigoRaises(predio) ==
    \/ FindTextRaises(predio, "codigo_predial_nacional")
    \/ FindText(predio, "codigo_predial_nacional") = PyNone

CodigoPredial(predio) == Strip(FindText(predio, "codigo_predial_nacional").s)

\* line 57: len(codigo_predial) == 30 and codigo_predial[5:7] == "01"
Regla01(codigo_predial) == Len(codigo_predial) = 30 /\ SubSeq(codigo_predial, 6, 7) = "01"

\* the children of root that root.remove has left, in order
RECURSIVE HijosPresentes(_, _, _)
HijosPresentes(hijos, presentes, i) ==
    IF i > Len(hijos) THEN <<>>
    ELSE (IF i \in presentes THEN <<hijos[i]>> ELSE <<>>) \o HijosPresentes(hijos, presentes, i + 1)

\* root.remove(predio) searches the children of root only: it raises ValueError for a
\* predio that lies deeper
RemoveRaises(ruta) == Len(ruta) # 1

\* lines 49-60: the loop over the copy predios[:] from its i-th element; est carries the
\* children root still has, the two counters, identificador_base and whether it raised
RECURSIVE EliminarDesde(_, _, _, _, _)
EliminarDesde(root, predios, predios_to_delete, i, est) ==
    IF i > Len(predios) \/ est.raises THEN est
    ELSE LET codigo_predial == CodigoPredial(ElementoEn(root, predios[i]))
             base == IF est.identificador_base = PyNone
                     THEN Str(Prefijo(codigo_predial, 5)) ELSE est.identificador_base
             conBase == [est EXCEPT !.identificador_base = base]
             quitado == [conBase EXCEPT !.presentes = @ \ {predios[i][1]}]
             sig == IF codigo_predial \in predios_to_delete
                    THEN IF RemoveRaises(predios[i]) THEN [conBase EXCEPT !.raises = TRUE]
                         ELSE [quitado EXCEPT !.eliminados_txt = @ + 1]
                    ELSE IF Regla01(codigo_predial)
                    THEN IF RemoveRaises(predios[i]) THEN [conBase EXCEPT !.raises = TRUE]
                         ELSE [quitado EXCEPT !.eliminados_01 = @ + 1]
                    ELSE conBase
         IN EliminarDesde(root, predios, predios_to_delete, i + 1, sig)

\* lines 64-66: what the except returns
ResultadoProcessError ==
    [tree |-> PyNone, total_initial |-> 0, eliminados_txt |-> 0, eliminados_01 |-> 0,
     total_remaining |-> 0, identificador_base |-> PyNone, total_txt |-> 0, no_en_xml |-> 0,
     txt_predios |-> {}, xml_predios |-> {}]

\* lines 33-66
process_xml(xml_path, predios_to_delete) ==
    IF ~xml_path.ok THEN ResultadoProcessError
    ELSE LET root == xml_path.root
             predios == RutasDesc(root, "predio")
         IN IF \E k \in DOMAIN predios : CodigoRaises(ElementoEn(root, predios[k]))
            THEN ResultadoProcessError
            ELSE LET predios_en_xml ==
                         {CodigoPredial(ElementoEn(root, predios[k])) : k \in DOMAIN predios}
                     predios_no_en_xml == predios_to_delete \ predios_en_xml
                     fin == EliminarDesde(root, predios, predios_to_delete, 1,
                                [presentes |-> DOMAIN root.hijos, eliminados_txt |-> 0,
                                 eliminados_01 |-> 0, identificador_base |-> PyNone,
                                 raises |-> FALSE])
                     restante == [root EXCEPT !.hijos = HijosPresentes(root.hijos, fin.presentes, 1)]
                 IN IF fin.raises THEN ResultadoProcessError
                    ELSE [tree |-> [ok |-> TRUE, root |-> restante],
                          total_initial |-> Len(predios),
                          eliminados_txt |-> fin.eliminados_txt,
                          eliminados_01 |-> fin.eliminados_01,
                          total_remaining |-> Len(FindAllDesc(restante, "predio")),
                          identificador_base |-> fin.identificador_base,
                          total_txt |-> Cardinality(predios_to_delete),
                          no_en_xml |-> Cardinality(predios_no_en_xml),
                          txt_predios |-> predios_to_delete,
                          xml_predios |-> predios_en_xml]

\* an identifier of 30 characters whose characters 5-6 are "01"
CodigoUrbano == "250190100000000010001000000000"

\* characters 5-6 are "01" but the identifier has 7 characters
CodigoZonaCorta == "2501901"

PredioCon(texto) == Elem("predio", PyNone, <<Hoja("codigo_predial_nacional", texto)>>)

\* a predio element with another predio element among its children
PredioAnidado(texto, anidado) ==
    Elem("predio", PyNone, <<Hoja("codigo_predial_nacional", texto), anidado>>)

\* The records of the files handed to process_xml: identifiers inside and outside the
\* "01" rule, one with surrounding whitespace, a record without identifier element, one
\* whose identifier has no text, a predio below another predio, and a predio below an
\* element that is not the root.
PrediosEliminar ==
    { PredioCon(CodigoA), PredioCon(CodigoB), PredioCon(CodigoUrbano),
      PredioCon(CodigoZonaCorta), PredioCon(" " \o CodigoA \o "\n"),
      Elem("predio", PyNone, <<>>),
      Elem("predio", PyNone, <<Vacio("codigo_predial_nacional")>>),
      PredioAnidado(CodigoA, PredioCon(CodigoB)),
      PredioAnidado(CodigoB, PredioCon(CodigoUrbano)),
      Elem("grupo", PyNone, <<PredioCon(CodigoA)>>),
      Elem("grupo", PyNone, <<PredioCon(CodigoB)>>) }

MaxPrediosEliminar == 2

ArchivosEliminar ==
    {Malformado} \cup {Archivo(ps) : ps \in SeqHasta(PrediosEliminar, MaxPrediosEliminar)}

\* the sets load_predios_to_delete can return over three identifiers: stripped lines
ConjuntosTxt == SUBSET {CodigoA, CodigoUrbano, CodigoC}

InitEliminar ==
    /\ pc = "eliminar"
    /\ ruta_archivo \in ArchivosEliminar
    /\ unique_predios \in ConjuntosTxt
    /\ eliminacion = Pendiente
    /\ predios_xml = <<>>
    /\ acumulados_comunes = {}
    /\ conjunto_land = {}
    /\ predios_res = {}
    /\ predios_sin_tram_res = {}
    /\ reporte = <<>>
    /\ carpeta_enero = <<>>
    /\ carpeta_dic = <<>>
    /\ pendientes = {}
    /\ comparados = <<>>
    /\ resultado_sin_interesados = Pendiente
    /\ resultado_sin_avaluos = Pendiente
    /\ resultado_cero = Pendiente
    /\ cola = <<>>
    /\ esquemas = <<>>
    /\ fallos = {}

\* main, line 110: process_xml(XML_PATH, predios_to_delete)
ProcessXml ==
    /\ pc = "eliminar"
    /\ eliminacion' = process_xml(ruta_archivo, unique_predios)
    /\ pc' = "eliminado"
    /\ UNCHANGED <<ruta_archivo, unique_predios, resultado_sin_interesados,
                   resultado_sin_avaluos, resultado_cero, carpeta_enero, carpeta_dic,
                   pendientes, comparados, acumulados_comunes, cola, esquemas, fallos,
                   reporte, conjunto_land, predios_res, predios_sin_tram_res, predios_xml>>

NextEliminar == ProcessXml

SpecEliminar == InitEliminar /\ [][NextEliminar]_vars

(***************************************************************************)
(* Properties of the classifiers                                            *)
(***************************************************************************)
Rango(seq) == {seq[i] : i \in DOMAIN seq}

SinDuplicados(seq) == \A i, j \in DOMAIN seq : seq[i] = seq[j] => i = j

\* the record has a codigo_predial_nacional element with non-empty text
TieneCodigo(predio) ==
    /\ Len(FindAllHijos(predio, "codigo_predial_nacional")) > 0
    /\ Truthy(FindAllHijos(predio, "codigo_predial_nacional")[1].text)

CodigoDe(predio) == FindAllHijos(predio, "codigo_predial_nacional")[1].text.s

\* the avaluo element is absent, has no text at all, or has blank text
AvaluoAusenteOVacio(predio) ==
    LET avaluo == FindAllDesc(predio, "avaluo")
    IN \/ Len(avaluo) = 0
       \/ avaluo[1].text = PyNone
       \/ Strip(avaluo[1].text.s) = ""

\* the appraisal as an integer: 0 when the element is absent, has no text or is not numeric
AvaluoEntero(predio) ==
    LET avaluo == FindAllDesc(predio, "avaluo")
    IN IF Len(avaluo) > 0 /\ avaluo[1].text # PyNone /\ IsDigit(avaluo[1].text.s)
       THEN IntDe(avaluo[1].text.s) ELSE 0

AvaluoAnomalo(predio) ==
    LET avaluo == FindAllDesc(predio, "avaluo")
    IN \/ Len(avaluo) = 0
       \/ avaluo[1].text = PyNone
       \/ ~IsDigit(avaluo[1].text.s)

CondicionNPH(predio) ==
    /\ Len(FindAllHijos(predio, "condicion_predio")) > 0
    /\ FindAllHijos(predio, "condicion_predio")[1].text = Str("NPH")

Posicion22Cero(codigo) == Len(codigo) >= 22 /\ CharAt(codigo, 21) = "0"

\* the position/condition rule of consulta 3 on one record
ReglaAvaluoCero(predio) ==
    /\ TieneCodigo(predio)
    /\ AvaluoEntero(predio) = 0
    /\ (Posicion22Cero(CodigoDe(predio)) \/ CondicionNPH(predio))

InteresadosAusenteOVacio(predio) ==
    LET interesados == FindAllDesc(predio, "interesados")
    IN Len(interesados) = 0 \/ Len(interesados[1].hijos) = 0

RegistrosDe(f) == Rango(PrediosDe(f))

\* C7: consulta 2 lists an identifier exactly when some record of the file has that
\* non-empty identifier and an avaluo that is absent, without text or blank; a record
\* with such an avaluo does not change how the other records are classified.
C7_SinAvaluosExacto ==
    (ruta_archivo.ok /\ resultado_sin_avaluos # Pendiente) =>
        Rango(resultado_sin_avaluos.numeros_prediales) =
            {CodigoDe(p) : p \in {q \in RegistrosDe(ruta_archivo) :
                                     TieneCodigo(q) /\ AvaluoAusenteOVacio(q)}}

\* C8: in a file whose records all have an identifier and a condition, consulta 3 does
\* not fail on a record whose avaluo is absent, without text or non-numeric: that record
\* is classified with appraisal 0, and every other record as if it were alone in the file.
C8_AvaluoAnomaloNoFalla ==
    (/\ ruta_archivo.ok
     /\ resultado_cero # Pendiente
     /\ \A p \in RegistrosDe(ruta_archivo) :
            TieneCodigo(p) /\ ~FindTextRaises(p, "condicion_predio")) =>
        Rango(resultado_cero.numeros_prediales) =
            UNION {IF AvaluoAnomalo(p)
                   THEN (IF ReglaAvaluoCero(p) THEN {CodigoDe(p)} ELSE {})
                   ELSE Rango(identificar_predios_avaluo_cero_o_condiciones(
                                  Archivo(<<p>>)).numeros_prediales) :
                   p \in RegistrosDe(ruta_archivo)}

\* C9: consulta 3 lists an identifier exactly when a record with that identifier has
\* integer appraisal 0 and either '0' at position 21 of an identifier of 22 or more
\* characters or condition NPH; a record with another appraisal is not listed.
C9_AvaluoCeroExacto ==
    (ruta_archivo.ok /\ resultado_cero # Pendiente) =>
        \A p \in RegistrosDe(ruta_archivo) :
            TieneCodigo(p) =>
                (CodigoDe(p) \in Rango(resultado_cero.numeros_prediales)
                    <=> \E q \in RegistrosDe(ruta_archivo) :
                            ReglaAvaluoCero(q) /\ CodigoDe(q) = CodigoDe(p))

\* The rule of consulta 3 as C9 states it, on the files none of whose records raises.
AvaluoCeroExactoSinError ==
    (/\ ruta_archivo.ok
     /\ resultado_cero # Pendiente
     /\ \A p \in RegistrosDe(ruta_archivo) : ~RaisesAvaluoCero(p)) =>
        /\ Rango(resultado_cero.numeros_prediales) =
               {CodigoDe(p) : p \in {q \in RegistrosDe(ruta_archivo) : ReglaAvaluoCero(q)}}
        /\ resultado_cero.conteo = Len(resultado_cero.numeros_prediales)

\* C10: consulta 1 lists an identifier exactly when some record of the file has that
\* non-empty identifier and an interesados section that is absent or childless; conteo
\* is the number of distinct identifiers listed and the list has no duplicates.
C10_SinInteresadosExacto ==
    (ruta_archivo.ok /\ resultado_sin_interesados # Pendiente) =>
        LET esperados == {CodigoDe(p) : p \in {q \in RegistrosDe(ruta_archivo) :
                                                  TieneCodigo(q) /\ InteresadosAusenteOVacio(q)}}
        IN /\ Rango(resultado_sin_interesados.numeros_prediales) = esperados
           /\ resultado_sin_interesados.conteo = Cardinality(esperados)
           /\ SinDuplicados(resultado_sin_interesados.numeros_prediales)

\* The rule of consulta 1 as C10 states it, on the files none of whose records raises.
SinInteresadosExactoSinError ==
    (/\ ruta_archivo.ok
     /\ resultado_sin_interesados # Pendiente
     /\ \A p \in RegistrosDe(ruta_archivo) : ~RaisesSinInteresados(p)) =>
        LET esperados == {CodigoDe(p) : p \in {q \in RegistrosDe(ruta_archivo) :
                                                  TieneCodigo(q) /\ InteresadosAusenteOVacio(q)}}
        IN /\ Rango(resultado_sin_interesados.numeros_prediales) = esperados
           /\ resultado_sin_interesados.conteo = Cardinality(esperados)
           /\ SinDuplicados(resultado_sin_interesados.numeros_prediales)

\* the file without its records that have no identifier (element absent or without text)
SinRegistrosSinCodigo(f) == Archivo(SelectSeq(PrediosDe(f), TieneCodigo))

\* C11: in each of the three classifiers a record whose codigo_predial_nacional is absent
\* or empty is skipped without error: the count and the list returned for the file are
\* those of the same file without that record, and the empty identifier is never listed.
C11_SinCodigoOmitido ==
    ruta_archivo.ok =>
        /\ resultado_sin_interesados # Pendiente =>
               /\ resultado_sin_interesados =
                      identificar_predios_sin_interesados(SinRegistrosSinCodigo(ruta_archivo))
               /\ "" \notin Rango(resultado_sin_interesados.numeros_prediales)
        /\ resultado_sin_avaluos # Pendiente =>
               /\ resultado_sin_avaluos =
                      identificar_predios_sin_avaluos(SinRegistrosSinCodigo(ruta_archivo))
               /\ "" \notin Rango(resultado_sin_avaluos.numeros_prediales)
        /\ resultado_cero # Pendiente =>
               /\ resultado_cero =
                      identificar_predios_avaluo_cero_o_condiciones(
                          SinRegistrosSinCodigo(ruta_archivo))
               /\ "" \notin Rango(resultado_cero.numeros_prediales)

\* The same for the records whose identifier element is present without text, in
\* consulta 1 and consulta 2, which test `if codigo_predial` before they list.
SinTextoOmitido ==
    (/\ ruta_archivo.ok
     /\ \A p \in RegistrosDe(ruta_archivo) : ~FindTextRaises(p, "codigo_predial_nacional")) =>
        /\ resultado_sin_interesados # Pendiente =>
               resultado_sin_interesados =
                   identificar_predios_sin_interesados(SinRegistrosSinCodigo(ruta_archivo))
        /\ resultado_sin_avaluos # Pendiente =>
               resultado_sin_avaluos =
                   identificar_predios_sin_avaluos(SinRegistrosSinCodigo(ruta_archivo))

(***************************************************************************)
(* Properties of the differ                                                 *)
(***************************************************************************)
\* the Snapshots of a pair: those comparar_predios was handed once the pair is compared
SnapshotEnero(archivo) ==
    IF archivo \in DOMAIN comparados THEN comparados[archivo].predios_enero
    ELSE obtener_predios_desde_xml(carpeta_enero[archivo \o ".xml"])

SnapshotDic(archivo) ==
    IF archivo \in DOMAIN comparados THEN comparados[archivo].predios_dic
    ELSE obtener_predios_desde_xml(carpeta_dic[archivo \o ".xml"])

ComunesDe(archivo) == DOMAIN SnapshotEnero(archivo) \cap DOMAIN SnapshotDic(archivo)

\* a name sub-field of a party of A whose value is not DESCONOCIDO and differs from
\* the value of the same sub-field of the same party of B
NombreDifiere(interesados_enero, interesados_dic) ==
    \E parte \in DOMAIN interesados_enero.d :
        /\ interesados_enero.d[parte].t = "dict"
        /\ \E atributo \in AtributosNombre :
              LET valor_enero == Get(interesados_enero.d[parte].d, atributo)
                  parte_dic == Get(interesados_dic.d, parte)
                  valor_dic == IF parte_dic.t = "dict"
                               THEN Get(parte_dic.d, atributo) ELSE PyNone
              IN valor_enero # Str("DESCONOCIDO") /\ valor_enero # valor_dic

\* C1: when 'interesados' is a nested mapping on both sides of a common identifier and a
\* name sub-field whose A-side value is not DESCONOCIDO differs, comparar_predios puts
\* the identifier in the changed list and in acumulados_comunes.
C1_NombreNoSuprimido ==
    \A archivo \in DOMAIN comparados :
        ~comparados[archivo].raises =>
            \A codigo \in ComunesDe(archivo) :
                LET interesados_enero == Get(SnapshotEnero(archivo)[codigo], "interesados")
                    interesados_dic == Get(SnapshotDic(archivo)[codigo], "interesados")
                IN (/\ interesados_enero.t = "dict"
                    /\ interesados_dic.t = "dict"
                    /\ NombreDifiere(interesados_enero, interesados_dic)) =>
                        /\ codigo \in comparados[archivo].predios_con_diferencias
                        /\ codigo \in acumulados_comunes

\* numerically zero: the number 0 or 0.0, or the text in which the extractor stores it
CeroNumerico(valor) == EsCero(valor) \/ valor \in {Str("0"), Str("0.0")}

Nulo(valor) == valor \in {PyNone, Str(""), Str("NULL")}

\* C2: for every field of a common identifier, a value None, '' or 'NULL' on one side
\* and a numerically zero value on the other side yield no delta, whichever side holds which.
C2_NuloEquivaleCero ==
    \A archivo \in DOMAIN comparados :
        ~comparados[archivo].raises =>
            \A codigo \in ComunesDe(archivo) :
                \A key \in DOMAIN SnapshotEnero(archivo)[codigo] :
                    LET valor_enero == SnapshotEnero(archivo)[codigo][key]
                        valor_dic == Get(SnapshotDic(archivo)[codigo], key)
                    IN (\/ (Nulo(valor_enero) /\ CeroNumerico(valor_dic))
                        \/ (Nulo(valor_dic) /\ CeroNumerico(valor_enero))) =>
                            key \notin comparados[archivo].diferencias[codigo]

\* C3: comparing a Snapshot with itself completes without error, reports no identifier
\* as changed and adds nothing to acumulados_comunes.
C3_IdenticosSinCambios ==
    \A archivo \in archivos_comunes :
        SnapshotEnero(archivo) = SnapshotDic(archivo) =>
            /\ pc # "TypeError"
            /\ archivo \in DOMAIN comparados =>
                   /\ comparados[archivo].predios_con_diferencias = {}
                   /\ acumulados_comunes = {}

\* C6: a file that cannot be parsed is told apart from a file without records, so that
\* procesar_carpetas skips its pair: the pair is never handed to comparar_predios as
\* an empty Snapshot against the other period.
C6_MalformadoNoComparado ==
    \A archivo \in DOMAIN comparados :
        /\ carpeta_enero[archivo \o ".xml"].ok
        /\ carpeta_dic[archivo \o ".xml"].ok

\* seq with p inserted after its first i elements
InsertarEn(seq, i, p) == SubSeq(seq, 1, i) \o <<p>> \o SubSeq(seq, i + 1, Len(seq))

\* C12: every key of the Snapshot obtener_predios_desde_xml returns is the non-empty
\* identifier of some record of the file, and a record whose identifier element is
\* absent or without text, added anywhere in the file, leaves the Snapshot unchanged.
C12_SinCodigoNoIndexado ==
    pc = "extraido" =>
        /\ \A codigo \in DOMAIN predios_xml :
              /\ codigo # ""
              /\ ruta_archivo.ok
              /\ \E p \in RegistrosDe(ruta_archivo) : TieneCodigo(p) /\ CodigoDe(p) = codigo
        /\ ruta_archivo.ok =>
              /\ predios_xml = obtener_predios_desde_xml(SinRegistrosSinCodigo(ruta_archivo))
              /\ \A p \in {q \in PrediosDif : ~TieneCodigo(q)} :
                     \A i \in 0..Len(PrediosDe(ruta_archivo)) :
                         obtener_predios_desde_xml(
                             Archivo(InsertarEn(PrediosDe(ruta_archivo), i, p))) = predios_xml

\* the Snapshot of a file that holds a record without identifier and a record with one
C12_Witness ==
    /\ pc = "extraido"
    /\ ruta_archivo.ok
    /\ \E p \in RegistrosDe(ruta_archivo) : ~TieneCodigo(p)
    /\ DOMAIN predios_xml # {}

\* the fields of a common identifier for which the comparison of a pair reported a delta
DeltasDe(archivo, codigo) ==
    IF codigo \in DOMAIN comparados[archivo].diferencias
    THEN comparados[archivo].diferencias[codigo] ELSE {}

\* C13: when the A-side direccion of a common identifier is 'SIN DIRECCION', the field
\* direccion yields no delta whatever the B-side value, absent included, and a record
\* that differs in that field only is not reported as changed nor accumulated.
C13_SinDireccionSuprimida ==
    \A archivo \in DOMAIN comparados :
      LET predios_enero == SnapshotEnero(archivo)
          predios_dic == SnapshotDic(archivo)
      IN \A codigo \in DOMAIN predios_enero \cap DOMAIN predios_dic :
            LET predio_enero == predios_enero[codigo]
                predio_dic == predios_dic[codigo]
            IN Get(predio_enero, "direccion") = Str("SIN DIRECCION") =>
                   /\ "direccion" \notin DeltasDe(archivo, codigo)
                   /\ (\A key \in DOMAIN predio_enero \ {"direccion"} :
                           predio_enero[key] = Get(predio_dic, key)) =>
                          /\ codigo \notin comparados[archivo].predios_con_diferencias
                          /\ codigo \notin acumulados_comunes

\* a compared pair whose A side has direccion 'SIN DIRECCION' and whose B side has
\* another direccion, or none
C13_Witness ==
    \E archivo \in DOMAIN comparados :
        \E codigo \in ComunesDe(archivo) :
            /\ Get(SnapshotEnero(archivo)[codigo], "direccion") = Str("SIN DIRECCION")
            /\ Get(SnapshotDic(archivo)[codigo], "direccion") \in {Str("CARRERA 7"), PyNone}
            /\ ~comparados[archivo].raises
            /\ codigo \notin acumulados_comunes

\* C14: only the fields of the A-side record of a common identifier are compared: a
\* field of the B side absent from the A side yields no delta, records that differ by
\* such fields only are not reported as changed, and a field of the A side absent from
\* the B side is compared against None.
C14_SoloCamposDeEnero ==
    \A archivo \in DOMAIN comparados :
      LET predios_enero == SnapshotEnero(archivo)
          predios_dic == SnapshotDic(archivo)
      IN \A codigo \in DOMAIN predios_enero \cap DOMAIN predios_dic :
            LET predio_enero == predios_enero[codigo]
                predio_dic == predios_dic[codigo]
            IN /\ DeltasDe(archivo, codigo) \subseteq DOMAIN predio_enero
               /\ (\A key \in DOMAIN predio_enero :
                       key \in DOMAIN predio_dic /\ predio_enero[key] = predio_dic[key]) =>
                      codigo \notin comparados[archivo].predios_con_diferencias
               /\ ~comparados[archivo].raises =>
                      \A key \in DOMAIN predio_enero \ (DOMAIN predio_dic \cup {"interesados"}) :
                          key \in DeltasDe(archivo, codigo) <=>
                              /\ predio_enero[key] # PyNone
                              /\ ~(key = "direccion" /\ predio_enero[key] = Str("SIN DIRECCION"))

\* a compared pair whose records differ by a field of the B side only, and are not
\* reported as changed
C14_Witness ==
    \E archivo \in DOMAIN comparados :
        \E codigo \in ComunesDe(archivo) :
            LET predio_enero == SnapshotEnero(archivo)[codigo]
                predio_dic == SnapshotDic(archivo)[codigo]
            IN /\ DOMAIN predio_dic \ DOMAIN predio_enero # {}
               /\ \A key \in DOMAIN predio_enero : predio_enero[key] = Get(predio_dic, key)
               /\ ~comparados[archivo].raises
               /\ codigo \notin comparados[archivo].predios_con_diferencias

\* C15: unicos_enero = keysA - keysB, unicos_dic = keysB - keysA, the three results are
\* pairwise disjoint, and every identifier reported as changed is in keysA \cap keysB
\* and has at least one field with a delta that no rule suppresses.
C15_ResultadosDisjuntos ==
    \A archivo \in DOMAIN comparados :
        LET r == comparados[archivo]
            predios_enero == SnapshotEnero(archivo)
            predios_dic == SnapshotDic(archivo)
            keysA == DOMAIN predios_enero
            keysB == DOMAIN predios_dic
        IN /\ r.unicos_enero = keysA \ keysB
           /\ r.unicos_dic = keysB \ keysA
           /\ r.unicos_enero \cap r.unicos_dic = {}
           /\ r.unicos_enero \cap r.predios_con_diferencias = {}
           /\ r.unicos_dic \cap r.predios_con_diferencias = {}
           /\ \A codigo \in r.predios_con_diferencias :
                  /\ codigo \in keysA \cap keysB
                  /\ \E key \in DOMAIN predios_enero[codigo] :
                         LET valor_enero == predios_enero[codigo][key]
                             valor_dic == Get(predios_dic[codigo], key)
                         IN /\ valor_enero # valor_dic
                            /\ ~Regla1(valor_enero, valor_dic)
                            /\ ~Regla2(key, valor_enero)
                            /\ ~Regla3(key, valor_enero, valor_dic)
                            /\ key \in DeltasDe(archivo, codigo)

\* a compared pair whose common identifiers are all reported as changed, each with one delta
C15_Witness ==
    \E archivo \in DOMAIN comparados :
        /\ ~comparados[archivo].raises
        /\ ComunesDe(archivo) # {}
        /\ comparados[archivo].predios_con_diferencias = ComunesDe(archivo)
        /\ \A codigo \in ComunesDe(archivo) : Cardinality(DeltasDe(archivo, codigo)) = 1

(***************************************************************************)
(* Properties of the run of main                                            *)
(***************************************************************************)
\* C4: main reports the set of changed identifiers without tramite nor resolucion only
\* when no reference source failed: a failed connection or query aborts the
\* cross-reference instead of standing for an empty or partial reference set.
C4_ReferenciaFallidaAborta ==
    "predios_sin_tram_res" \in DOMAIN reporte => fallos = {}

\* C5: when main has ended, every municipality whose two files parse has been compared
\* and its changed identifiers are in acumulados_comunes, whatever failed elsewhere.
C5_FalloNoImpideComparar ==
    pc \in {"terminado", "TypeError"} =>
        \A archivo \in archivos_comunes :
            (carpeta_enero[archivo \o ".xml"].ok /\ carpeta_dic[archivo \o ".xml"].ok) =>
                /\ archivo \in DOMAIN comparados
                /\ ~comparados[archivo].raises
                /\ comparados[archivo].predios_con_diferencias \subseteq acumulados_comunes

\* C16: acumulados_comunes only grows: every step of the run leaves it a superset of
\* what it was, and only comparar_predios changes it; the subtractions of the
\* cross-reference leave it as it is.
C16_AcumuladorSoloCrece ==
    [][/\ acumulados_comunes \subseteq acumulados_comunes'
       /\ pc # "comparando" => acumulados_comunes' = acumulados_comunes]_vars

\* the run has ended with both municipalities accumulated and an identifier subtracted
\* by the cross-reference
C16_Witness ==
    /\ pc = "terminado"
    /\ "predios_sin_tram_res" \in DOMAIN reporte
    /\ Cardinality(acumulados_comunes) = 2
    /\ predios_sin_tram_res # acumulados_comunes

\* C17: a second call of comparar_predios on a pair already compared would leave
\* acumulados_comunes as the first call left it.
C17_ActualizarIdempotente ==
    \A archivo \in DOMAIN comparados :
        ~comparados[archivo].raises =>
            acumulados_comunes \cup ResultadoDe(archivo).predios_con_diferencias
                = acumulados_comunes

\* a pair with changed identifiers has been compared and another is still to come
C17_Witness ==
    /\ pc = "comparando"
    /\ pendientes # {}
    /\ \E archivo \in DOMAIN comparados :
           comparados[archivo].predios_con_diferencias # {}

\* C18: when procesar_carpetas finishes, every pair whose base name is in both folders
\* has been compared, and acumulados_comunes is the union of their changed sets,
\* whatever the order in which the pairs were taken.
C18_UnionDeTodos ==
    pc = "procesado" =>
        /\ DOMAIN comparados = BasesXml(carpeta_enero) \cap BasesXml(carpeta_dic)
        /\ acumulados_comunes =
               UNION {ResultadoDe(archivo).predios_con_diferencias :
                          archivo \in BasesXml(carpeta_enero) \cap BasesXml(carpeta_dic)}

\* procesar_carpetas has finished with changed identifiers from two municipalities
C18_Witness ==
    /\ pc = "procesado"
    /\ Cardinality(DOMAIN comparados) = 2
    /\ \A archivo \in DOMAIN comparados : comparados[archivo].predios_con_diferencias # {}

\* C19: the set main reports without tramite nor resolucion is acumulados_comunes minus
\* conjunto_land minus predios_res: a subset of acumulados_comunes that shares no
\* identifier with either reference set; for {A, B, C}, {A} and {B} it is {C}.
C19_SinTramiteNiResolucion ==
    "predios_sin_tram_res" \in DOMAIN reporte =>
        LET sin_tram_res == reporte["predios_sin_tram_res"]
        IN /\ sin_tram_res = predios_sin_tram_res
           /\ sin_tram_res = {p \in acumulados_comunes : p \notin conjunto_land /\ p \notin predios_res}
           /\ sin_tram_res \subseteq acumulados_comunes
           /\ sin_tram_res \cap conjunto_land = {}
           /\ sin_tram_res \cap predios_res = {}
           /\ (/\ acumulados_comunes = {CodigoA, CodigoB, CodigoC}
               /\ conjunto_land = {CodigoA}
               /\ predios_res = {CodigoB}) => sin_tram_res = {CodigoC}

\* the scenario {A, B, C}, {A}, {B} has been cross-referenced
C19_Witness ==
    /\ pc = "terminado"
    /\ acumulados_comunes = {CodigoA, CodigoB, CodigoC}
    /\ conjunto_land = {CodigoA}
    /\ predios_res = {CodigoB}
    /\ "predios_sin_tram_res" \in DOMAIN reporte
    /\ reporte["predios_sin_tram_res"] = {CodigoC}

\* the sum of the values of a function to the naturals
RECURSIVE Suma(_)
Suma(f) ==
    IF DOMAIN f = {} THEN 0
    ELSE LET k == CHOOSE x \in DOMAIN f : TRUE
         IN f[k] + Suma([x \in DOMAIN f \ {k} |-> f[x]])

\* C20: the count per municipality partitions the list of identifiers without tramite
\* nor resolucion by their first 5 characters: each identifier is counted in the group
\* of its first 5 characters (of the whole identifier when it is shorter) and in no
\* other, the counts add up to the length of the list, and no group has count 0.
C20_ConteoParticiona ==
    "conteo_predios" \in DOMAIN reporte =>
        LET conteo == reporte["conteo_predios"]
            lista == reporte["lista_predios"]
        IN /\ Rango(lista) = predios_sin_tram_res
           /\ \A i \in DOMAIN lista :
                  /\ SubSeq(lista[i], 1, Min(5, Len(lista[i]))) \in DOMAIN conteo
                  /\ Len(lista[i]) < 5 => lista[i] \in DOMAIN conteo
           /\ \A clave \in DOMAIN conteo :
                  /\ conteo[clave] =
                         Cardinality({i \in DOMAIN lista :
                                         SubSeq(lista[i], 1, Min(5, Len(lista[i]))) = clave})
                  /\ conteo[clave] > 0
           /\ Suma(conteo) = Len(lista)

\* a count with a group of two identifiers and the group of a short identifier
C20_Witness ==
    /\ pc = "terminado"
    /\ "conteo_predios" \in DOMAIN reporte
    /\ DOMAIN reporte["conteo_predios"] = {"25019", "250"}
    /\ reporte["conteo_predios"]["25019"] = 2
    /\ reporte["conteo_predios"]["250"] = 1

(***************************************************************************)
(* Order of the suppression rules                                           *)
(***************************************************************************)
\* the orders in which the three rules can be evaluated; the code's is <<1, 2, 3>>
Ordenes == {<<1, 2, 3>>, <<1, 3, 2>>, <<2, 1, 3>>, <<2, 3, 1>>, <<3, 1, 2>>, <<3, 2, 1>>}

\* what one rule does with a field: it suppresses it (continue), lets it through to
\* the next statement, or raises (regla 3 on a value that cannot be iterated)
ReglaHace(n, key, valor_enero, valor_dic) ==
    CASE n = 1 -> IF Regla1(valor_enero, valor_dic) THEN "suprime" ELSE "sigue"
      [] n = 2 -> IF Regla2(key, valor_enero) THEN "suprime" ELSE "sigue"
      [] n = 3 -> IF key # "interesados" THEN "sigue"
                  ELSE IF InteresadosRaises(valor_enero) THEN "raises"
                  ELSE IF Regla3(key, valor_enero, valor_dic) THEN "suprime" ELSE "sigue"

\* the body of the loop over the fields with the rules evaluated in the given order:
\* reglas[n] is what rule n does with the field, and the first rule that does not let
\* the field through decides; after the last one the values are compared
RECURSIVE EvaluarEnOrden(_, _, _)
EvaluarEnOrden(orden, reglas, difieren) ==
    IF Len(orden) = 0 THEN (IF difieren THEN "delta" ELSE "igual")
    ELSE IF reglas[Head(orden)] = "sigue" THEN EvaluarEnOrden(Tail(orden), reglas, difieren)
    ELSE reglas[Head(orden)]

ConteosConsistentes ==
    "interseecion_xml_tra_res" \in DOMAIN reporte =>
        LET T == reporte["interseccion_tramites"]
            R == reporte["interseccion_resoluciones"]
            F == reporte["interseecion_xml_tra_res"]
        IN /\ T = acumulados_comunes \cap conjunto_land
           /\ R = acumulados_comunes \cap predios_res
           /\ F = T \cap R
           /\ F = (acumulados_comunes \cap conjunto_land) \cap predios_res
           /\ Cardinality(reporte["predios_sin_tram_res"]) =
                  Cardinality(acumulados_comunes) - Cardinality(T) - Cardinality(R)
                      + Cardinality(F)

\* C22: the sizes main reports satisfy |unexplained| = |Accumulator| - |T| - |R| + |F|
\* with T, R and F the intersections of acumulados_comunes with conjunto_land, with
\* predios_res and with both, and they are computed from acumulados_comunes as it
\* stands once procesar_carpetas has compared every municipality.
C22_EstadisticasConsistentes ==
    /\ ConteosConsistentes
    /\ (DOMAIN reporte # {}) =>
           /\ pendientes = {}
           /\ DOMAIN comparados = BasesXml(carpeta_enero) \cap BasesXml(carpeta_dic)
           /\ acumulados_comunes =
                  UNION {comparados[archivo].predios_con_diferencias :
                             archivo \in DOMAIN comparados}
           /\ "predios_modificaciones_sin_tramite" \in DOMAIN reporte =>
                  reporte["predios_modificaciones_sin_tramite"] =
                      acumulados_comunes \ conjunto_land

\* the run has ended with an identifier in both reference sets and in the accumulator,
\* and another one without tramite nor resolucion
C22_Witness ==
    /\ pc = "terminado"
    /\ "interseecion_xml_tra_res" \in DOMAIN reporte
    /\ reporte["interseecion_xml_tra_res"] # {}
    /\ reporte["predios_sin_tram_res"] # {}
    /\ Cardinality(DOMAIN comparados) = 2

(***************************************************************************)
(* Properties of process_xml                                                *)
(***************************************************************************)
\* process_xml returned a tree
DevolvioArbol == pc = "eliminado" /\ eliminacion.tree # PyNone

\* the identifiers of the predio elements of a tree, one per element
CodigosDe(raiz) ==
    LET ps == FindAllDesc(raiz, "predio") IN [k \in DOMAIN ps |-> CodigoPredial(ps[k])]

\* Whenever process_xml returns a tree, every record in the deletion set is counted in
\* eliminados_txt and only there, also when it matches the "01" rule.
PrioridadTxt ==
    DevolvioArbol =>
        LET codigos == CodigosDe(ruta_archivo.root)
        IN /\ eliminacion.eliminados_txt =
                  Cardinality({k \in DOMAIN codigos : codigos[k] \in unique_predios})
           /\ eliminacion.eliminados_01 =
                  Cardinality({k \in DOMAIN codigos :
                                  codigos[k] \notin unique_predios /\ Regla01(codigos[k])})

\* Whenever process_xml returns a tree, no record left in it has an identifier in the
\* deletion set or matching the "01" rule.
SinRestantesEliminables ==
    DevolvioArbol =>
        LET restantes == CodigosDe(eliminacion.tree.root)
        IN \A k \in DOMAIN restantes :
              restantes[k] \notin unique_predios /\ ~Regla01(restantes[k])

ConservaConteo ==
    eliminacion.total_initial =
        eliminacion.eliminados_txt + eliminacion.eliminados_01 + eliminacion.total_remaining

\* no predio element of the file lies below another predio element
SinAnidados ==
    \A p \in Rango(PrediosDe(ruta_archivo)) : Len(FindAllDesc(p, "predio")) = 0

\* Whenever process_xml returns a tree for a file without a predio below another predio,
\* the count is conserved.
ConservaSinAnidados == DevolvioArbol /\ SinAnidados => ConservaConteo

\* C23: whenever process_xml returns a tree, total_initial = eliminados_txt +
\* eliminados_01 + total_remaining; a record whose identifier is in the deletion set is
\* counted only in eliminados_txt even if it also matches the "01" rule, and no remaining
\* record has an identifier in the deletion set or matching the "01" rule.
C23_ConservaRegistros ==
    /\ DevolvioArbol => ConservaConteo
    /\ PrioridadTxt
    /\ SinRestantesEliminables

====
